---- MODULE Spec2Model ----
(***************************************************************************)
(* Vigilant Sentinel: transaction ingestion, fraud analysis, alert store,  *)
(* threat response and observer broadcast (backend/main.py and the two     *)
(* agents).  Risk scores are kept in hundredths (0.35 is 35): every sum of *)
(* the analyzers' contributions compares against the thresholds 0.3, 0.5   *)
(* and 0.7 in binary floating point exactly as the hundredths do.          *)
(***************************************************************************)
EXTENDS Integers, Sequences, FiniteSets, TLC

\* ------------------------------------------------------------------ bounds
MaxSubmit  == 2      \* submissions through analyze / generate-transaction
MaxRespond == 1      \* calls of respond_to_alert
MaxInbox   == 2      \* messages on a socket beyond which its client is silent

\* ------------------------------------------------------------- input sets
TxnIds    == {"txn_1", "txn_2"}
Observers == {"ws_1", "ws_2"}
Stages    == {"fraud_detection", "threat_response", "case_manager"}

Amounts    == {50, 1500, 6000}
Locations  == {"New York, NY", "Unknown"}
Devices    == {"device_123", "unknown"}
Timestamps == {"2024-01-01T14:00:00", "2024-01-01T02:00:00"}

UserOf(id) == IF id = "txn_1" THEN "user_1" ELSE "user_2"

\* TransactionData (main.py) restricted to the fields the pipeline reads
Transactions ==
  { [id |-> i, user_id |-> UserOf(i), amount |-> a, location |-> l,
     device_id |-> d, timestamp |-> ts] :
       i \in TxnIds, a \in Amounts, l \in Locations, d \in Devices,
       ts \in Timestamps }

\* the records posted to /api/transactions/analyze
PipelineTransactions ==
  { t \in Transactions :
      t.amount = 6000 /\ t.location = "Unknown" /\ t.device_id = "unknown"
                      /\ t.timestamp = "2024-01-01T02:00:00" }

\* the records generate_test_transaction draws: its locations are never
\* high-risk ones
GeneratedTransactions ==
  { t \in Transactions :
      \/ t.amount = 1500 /\ t.location = "New York, NY" /\ t.device_id = "unknown"
                         /\ t.timestamp = "2024-01-01T02:00:00"
      \/ t.amount = 50   /\ t.location = "New York, NY" /\ t.device_id = "device_123"
                         /\ t.timestamp = "2024-01-01T14:00:00" }

\* records posted to /api/transactions/analyze whose timestamp is no ISO
\* date: TransactionData.timestamp is any string
MalformedTransactions ==
  { [id |-> i, user_id |-> UserOf(i), amount |-> 1500, location |-> "New York, NY",
     device_id |-> "device_123", timestamp |-> "yesterday"] : i \in TxnIds }

\* the records drawn while observers are connected
ObservedTransactions == { t \in GeneratedTransactions : t.amount = 1500 }

\* ------------------------------------------------------- string predicates
\* "Unknown"/"Foreign"/"High-risk country" in location (case-sensitive)
ContainsHighRisk(location) == location \in {"Unknown"}
\* "ATM" in location
ContainsATM(location) == FALSE
\* "unknown" in location.lower()
LowerContainsUnknown(location) == location \in {"Unknown"}
\* datetime.fromisoformat(timestamp).hour; -1 when the parse raises
ParseHour(timestamp) ==
  CASE timestamp = "2024-01-01T14:00:00" -> 14
    [] timestamp = "2024-01-01T02:00:00" -> 2
    [] timestamp = "2024-01-01T02:00:00Z" -> 2
    [] timestamp = "2024-01-01T05:59:00" -> 5
    [] timestamp = "2024-01-01T06:00:00" -> 6
    [] timestamp = "2024-01-01T23:00:00" -> 23
    [] timestamp = "2024-01-01T23:30:00" -> 23
    [] OTHER -> -1

\* min() that returns its first argument
Min_NoClamp(a, b) == a

Min(a, b) == IF a < b THEN a ELSE b

\* --------------------------------------------------------------- analyzers
\* amounts as multiples of 1/unit of a dollar
AmountSignal_Inclusive(amount, unit) ==
  LET tier == IF amount >= 5000 * unit
                THEN [f |-> <<"High transaction amount (>$5000)">>, s |-> 30]
              ELSE IF amount >= 1000 * unit
                THEN [f |-> <<"Elevated transaction amount (>$1000)">>, s |-> 10]
              ELSE [f |-> <<>>, s |-> 0]
      round == IF amount % (100 * unit) = 0
                 THEN [f |-> <<"Round amount transaction">>, s |-> 5]
                 ELSE [f |-> <<>>, s |-> 0]
  IN [risk_factors |-> tier.f \o round.f, risk_score |-> Min(tier.s + round.s, 100)]

AmountSignal(amount, unit) ==
  LET tier == IF amount > 5000 * unit
                THEN [f |-> <<"High transaction amount (>$5000)">>, s |-> 30]
              ELSE IF amount > 1000 * unit
                THEN [f |-> <<"Elevated transaction amount (>$1000)">>, s |-> 10]
              ELSE [f |-> <<>>, s |-> 0]
      round == IF amount % (100 * unit) = 0
                 THEN [f |-> <<"Round amount transaction">>, s |-> 5]
                 ELSE [f |-> <<>>, s |-> 0]
  IN [risk_factors |-> tier.f \o round.f, risk_score |-> Min(tier.s + round.s, 100)]

\* the analyzer on an amount in whole dollars
analyze_transaction_amount(amount) == AmountSignal(amount, 1)

analyze_location_pattern(location) ==
  LET hr  == IF ContainsHighRisk(location)
               THEN [f |-> <<"High-risk location">>, s |-> 40]
               ELSE [f |-> <<>>, s |-> 0]
      atm == IF ContainsATM(location)
               THEN [f |-> <<"ATM transaction">>, s |-> 10]
               ELSE [f |-> <<>>, s |-> 0]
  IN [risk_factors |-> hr.f \o atm.f, risk_score |-> Min(hr.s + atm.s, 100)]

analyze_device_pattern(device_id) ==
  IF device_id = "unknown" \/ device_id = "new_device"
    THEN [risk_factors |-> <<"Unknown or new device">>, risk_score |-> 30]
    ELSE [risk_factors |-> <<>>, risk_score |-> 0]

analyze_time_pattern(timestamp) ==
  LET hour == ParseHour(timestamp)
  IN IF hour = -1
       THEN [risk_factors |-> <<"Invalid timestamp format">>, risk_score |-> 10]
     ELSE IF hour < 6 \/ hour > 23
       THEN [risk_factors |-> <<"Unusual transaction time">>, risk_score |-> 20]
     ELSE [risk_factors |-> <<>>, risk_score |-> 0]

\* the simulated count of recent transactions
recent_transactions == 3

check_velocity_patterns(user_id) ==
  IF recent_transactions > 5
    THEN [risk_factors |-> <<"High transaction velocity (>5 transactions recently)">>,
          risk_score |-> 40]
  ELSE IF recent_transactions > 2
    THEN [risk_factors |-> <<"Elevated transaction velocity">>, risk_score |-> 20]
  ELSE [risk_factors |-> <<>>, risk_score |-> 0]

\* ------------------------------------------------------ narrative service
NarrativeOutcomes == {"ok", "fail"}
call_bedrock_directly(outcome) ==
  IF outcome = "ok" THEN "AI narrative" ELSE "Error calling Bedrock model"

\* ------------------------------------------------- classifier and fallback
\* the ladder with strict comparisons
Ladder_Strict(score, unit) ==
  IF 10 * score > 7 * unit
    THEN [severity |-> "CRITICAL",
          recommended_action |-> "BLOCK_TRANSACTION_AND_FREEZE_ACCOUNT"]
  ELSE IF 10 * score > 5 * unit
    THEN [severity |-> "HIGH", recommended_action |-> "REQUIRE_ADDITIONAL_VERIFICATION"]
  ELSE IF 10 * score > 3 * unit
    THEN [severity |-> "MEDIUM", recommended_action |-> "REQUIRE_BASIC_VERIFICATION"]
  ELSE [severity |-> "LOW", recommended_action |-> "MONITOR_ONLY"]

\* the if/elif ladder of process_transaction_alert on the score score/unit:
\* score/unit >= 0.7, >= 0.5, >= 0.3
Ladder(score, unit) ==
  IF 10 * score >= 7 * unit
    THEN [severity |-> "CRITICAL",
          recommended_action |-> "BLOCK_TRANSACTION_AND_FREEZE_ACCOUNT"]
  ELSE IF 10 * score >= 5 * unit
    THEN [severity |-> "HIGH", recommended_action |-> "REQUIRE_ADDITIONAL_VERIFICATION"]
  ELSE IF 10 * score >= 3 * unit
    THEN [severity |-> "MEDIUM", recommended_action |-> "REQUIRE_BASIC_VERIFICATION"]
  ELSE [severity |-> "LOW", recommended_action |-> "MONITOR_ONLY"]

\* the ladder on a score in hundredths
Classify(score) == Ladder(score, 100)

_fallback_fraud_alert(txn) ==
  LET a == IF txn.amount > 1000
             THEN [f |-> <<"High amount transaction (fallback)">>, s |-> 30]
             ELSE [f |-> <<>>, s |-> 0]
      l == IF LowerContainsUnknown(txn.location)
             THEN [f |-> <<"Unknown location (fallback)">>, s |-> 20]
             ELSE [f |-> <<>>, s |-> 0]
      risk_score == a.s + l.s
  IN [transaction_id     |-> txn.id,
      risk_score         |-> Min(risk_score, 100),
      risk_factors       |-> a.f \o l.f,
      severity           |-> IF risk_score > 30 THEN "MEDIUM" ELSE "LOW",
      recommended_action |-> IF risk_score > 30 THEN "REQUIRE_BASIC_VERIFICATION"
                                                ELSE "MONITOR_ONLY",
      agent_reasoning    |-> "Fallback analysis used due to agent error"]

\* process_transaction_alert: raised = an unexpected exception inside the try
\* block; narr = the outcome of the narrative call
process_transaction_alert(txn, raised, narr) ==
  IF raised THEN _fallback_fraud_alert(txn)
  ELSE
    LET amount_analysis   == analyze_transaction_amount(txn.amount)
        location_analysis == analyze_location_pattern(txn.location)
        device_analysis   == analyze_device_pattern(txn.device_id)
        time_analysis     == analyze_time_pattern(txn.timestamp)
        velocity_analysis == check_velocity_patterns(txn.user_id)
        total_risk_score  == amount_analysis.risk_score + location_analysis.risk_score
                             + device_analysis.risk_score + time_analysis.risk_score
                             + velocity_analysis.risk_score
        final_risk_score  == Min(total_risk_score, 100)
        decision          == Classify(final_risk_score)
    IN [transaction_id     |-> txn.id,
        risk_score         |-> final_risk_score,
        risk_factors       |-> amount_analysis.risk_factors \o location_analysis.risk_factors
                               \o device_analysis.risk_factors \o time_analysis.risk_factors
                               \o velocity_analysis.risk_factors,
        severity           |-> decision.severity,
        recommended_action |-> decision.recommended_action,
        agent_reasoning    |-> call_bedrock_directly(narr)]

\* --------------------------------------------------------- response actions
\* the user the executor acts on: fraud_alert.get('user_id', 'unknown')
AlertUser(fraud_alert) ==
  IF "user_id" \in DOMAIN fraud_alert THEN fraud_alert.user_id ELSE "unknown"

\* the calls of one branch of execute_threat_response, in program order, each
\* with the description appended to actions_taken after the call returns
ResponsePlan(fraud_alert) ==
  LET risk_score == fraud_alert.risk_score
      user_id    == AlertUser(fraud_alert)
  IN IF risk_score >= 70 THEN
       << [action |-> "block_transaction", target |-> fraud_alert.transaction_id,
           detail |-> "Critical fraud risk", text |-> "Blocked transaction"],
          [action |-> "freeze_account", target |-> user_id,
           detail |-> "24", text |-> "Froze account for 24 hours"],
          [action |-> "send_fraud_alert", target |-> user_id,
           detail |-> "SMS", text |-> "Sent urgent fraud alert"],
          [action |-> "log_security_event", target |-> "CRITICAL_FRAUD",
           detail |-> "HIGH", text |-> "Logged critical security event"] >>
     ELSE IF risk_score >= 50 THEN
       << [action |-> "require_verification", target |-> user_id,
           detail |-> "2FA", text |-> "Required 2FA verification"],
          [action |-> "send_fraud_alert", target |-> user_id,
           detail |-> "EMAIL", text |-> "Sent security alert"],
          [action |-> "log_security_event", target |-> "HIGH_FRAUD",
           detail |-> "MEDIUM", text |-> "Logged high-risk security event"] >>
     ELSE IF risk_score >= 30 THEN
       << [action |-> "require_verification", target |-> user_id,
           detail |-> "SMS_CODE", text |-> "Required SMS verification"],
          [action |-> "log_security_event", target |-> "MEDIUM_FRAUD",
           detail |-> "LOW", text |-> "Logged medium-risk security event"] >>
     ELSE
       << [action |-> "log_security_event", target |-> "LOW_FRAUD",
           detail |-> "INFO", text |-> "Logged low-risk security event"] >>

FallbackLogCall ==
  [action |-> "log_security_event", target |-> "FALLBACK_RESPONSE",
   detail |-> "INFO", text |-> "Logged security event (fallback mode)"]

_fallback_response(alert_id, fraud_alert) ==
  [alert_id        |-> alert_id,
   actions_taken   |-> << FallbackLogCall.text >>,
   status          |-> "fallback_completed",
   agent_reasoning |-> "Fallback response used due to agent error"]

\* execute_threat_response in which a failed narrative call raises inside
\* the try block, before the first action
execute_threat_response_NarrativeRaises(alert_id, fraud_alert, failing, narr) ==
  LET plan == ResponsePlan(fraud_alert)
  IN IF narr = "ok" /\ (failing = 0 \/ failing > Len(plan))
       THEN [response  |-> [alert_id        |-> alert_id,
                            actions_taken   |-> [i \in 1..Len(plan) |-> plan[i].text],
                            status          |-> "completed",
                            agent_reasoning |-> call_bedrock_directly(narr)],
             performed |-> plan]
       ELSE [response  |-> _fallback_response(alert_id, fraud_alert),
             performed |-> << FallbackLogCall >>]

\* execute_threat_response: failing = 0 when no call raises, k when the k-th
\* call of the branch raises.  response is the ThreatResponse returned,
\* performed the calls that ran to completion (their side effects happened).
execute_threat_response(alert_id, fraud_alert, failing, narr) ==
  LET plan == ResponsePlan(fraud_alert)
  IN IF failing = 0 \/ failing > Len(plan)
       THEN [response  |-> [alert_id        |-> alert_id,
                            actions_taken   |-> [i \in 1..Len(plan) |-> plan[i].text],
                            status          |-> "completed",
                            agent_reasoning |-> call_bedrock_directly(narr)],
             performed |-> plan]
       ELSE [response  |-> _fallback_response(alert_id, fraud_alert),
             performed |-> Append(SubSeq(plan, 1, failing - 1), FallbackLogCall)]

MaxPlanLen == 4
Failing == 0..MaxPlanLen

\* ------------------------------------------------------------ case manager
MaxInvestigate == 2  \* calls of investigate_case

CaseIds      == {"case_1", "case_2"}
RequestTypes == {"transaction_analysis", "unknown_request"}

\* MockCaseManagerAgent.__init__: investigation_templates
Templates ==
  [transaction_analysis |-> << "Transaction pattern analysis completed",
                               "Historical data reviewed",
                               "Similar cases identified",
                               "Risk assessment updated" >>,
   user_profile         |-> << "User behavior profile analyzed",
                               "Account history reviewed",
                               "Previous fraud incidents checked",
                               "Risk profile updated" >>,
   evidence_collection  |-> << "Transaction logs collected",
                               "Device fingerprints analyzed",
                               "IP geolocation verified",
                               "Evidence package prepared" >>]

\* what investigate_case appends: nothing when random.random() <= 0.5,
\* otherwise random.sample(additional_steps, 2)
Extensions ==
  { << >>,
    << "Cross-referenced with fraud database", "Regulatory compliance checked" >>,
    << "Documentation updated", "Machine learning insights generated" >> }

\* random.uniform(0.7, 0.95), in hundredths
Confidences == {70, 83, 95}

Recommendations(request_type) ==
  CASE request_type = "transaction_analysis" ->
         << "Monitor user for 30 days", "Implement additional verification",
            "Update fraud detection rules" >>
    [] request_type = "user_profile" ->
         << "Review account security settings", "Educate user about fraud prevention",
            "Consider account restrictions" >>
    [] request_type = "evidence_collection" ->
         << "Prepare case for legal review", "Document all evidence",
            "Coordinate with law enforcement if needed" >>
    [] OTHER ->
         << "Continue monitoring", "Follow standard procedures", "Escalate if necessary" >>

\* MockCaseManagerAgent.investigate_case: the list taken from the templates
\* is the template itself, so extend() lengthens the template; the default
\* list of an unknown request type is a fresh one.  The result is returned
\* without its timestamp and its estimated completion time.
case_manager_agent_investigate_case(templates, case_id, request_type, extension, confidence) ==
  LET known == request_type \in DOMAIN templates
      steps == (IF known THEN templates[request_type]
                ELSE << "General investigation completed", "Case reviewed" >>)
                 \o extension
  IN [templates |-> IF known THEN [templates EXCEPT ![request_type] = steps]
                    ELSE templates,
      result    |-> [case_id            |-> case_id,
                     investigation_type |-> request_type,
                     steps_completed    |-> steps,
                     recommendations    |-> Recommendations(request_type),
                     confidence_score   |-> confidence,
                     status             |-> "completed"]]

\* assist_case_investigation without its except clause
assist_case_investigation_Propagates(templates, case_id, request_type, raised, extension, confidence) ==
  IF raised
    THEN [templates |-> templates, result |-> [status |-> "raised"]]
    ELSE case_manager_agent_investigate_case(templates, case_id, request_type, extension, confidence)

\* assist_case_investigation: raised tells whether investigate_case raises
assist_case_investigation(templates, case_id, request_type, raised, extension, confidence) ==
  IF raised
    THEN [templates |-> templates,
          result    |-> [case_id            |-> case_id,
                         investigation_type |-> request_type,
                         steps_completed    |-> << "Error in investigation",
                                                   "Manual review required" >>,
                         recommendations    |-> << "Escalate to human analyst" >>,
                         confidence_score   |-> 0,
                         status             |-> "error"]]
    ELSE case_manager_agent_investigate_case(templates, case_id, request_type, extension, confidence)

\* ------------------------------------------------------------------- state
VARIABLES
  active_alerts,          \* app_state.active_alerts: id -> FraudAlert
  agent_metrics,          \* app_state.agent_metrics
  websocket_connections,  \* app_state.websocket_connections
  transaction_queue,      \* app_state.transaction_queue
  alert_queue,            \* app_state.alert_queue
  task,                   \* position and locals of the two workers and of the
                          \* two handlers that suspend
  conn,                   \* per observer: state of its socket and handler
  inbox,                  \* per observer: the messages written to its socket
  reply,                  \* per handler: the last HTTP reply
  now,                    \* logical clock read by datetime.now()
  submitted,              \* history: transactions handed to a handler
  nsubmit,                \* history: number of submissions
  nrespond,               \* history: number of respond_to_alert calls
  enqueued,               \* history: ids put on transaction_queue, in order
  alerted,                \* history: ids put on alert_queue, in order
  responded,              \* history: ids the alert consumer responded to
  last_run,               \* history: the latest run of execute_threat_response
  probe,                  \* an input handed to a pure function and its result
  investigation_templates,\* case_manager_agent.investigation_templates
  ninvestigate,           \* history: number of investigate_case requests
  joined                  \* history: per observer, the submissions made before
                          \* it connected; -1 before it connects

vars == << active_alerts, agent_metrics, websocket_connections, transaction_queue,
           alert_queue, task, conn, inbox, reply, now, submitted, nsubmit,
           nrespond, enqueued, alerted, responded, last_run, probe,
           investigation_templates, ninvestigate, joined >>

Tasks    == {"txw", "alw", "gen", "resp"}
Handlers == {"analyze", "gen", "resp", "investigate"}

NoAlert == [transaction_id |-> "none"]
NoItem  == [kind |-> "none"]
NoIter  == [message |-> NoItem, used |-> 0, seen |-> {}, snap |-> {}, disconnected |-> {}]
NoReply == [code |-> 0]
NoRun   == [via |-> "none"]
NoProbe == [score |-> -1]
Idle(t) == [pc |-> IF t \in {"txw", "alw"} THEN "get" ELSE "idle",
            item |-> NoItem, it |-> NoIter]
StopIteration == "StopIteration"

\* ApplicationState() and the two workers waiting on their queues
Boot ==
  /\ active_alerts = [i \in TxnIds |-> NoAlert]
  /\ agent_metrics = [s \in Stages |-> [processed |-> 0, errors |-> 0, last_activity |-> 0]]
  /\ websocket_connections = {}
  /\ transaction_queue = << >>
  /\ alert_queue = << >>
  /\ task = [t \in Tasks |-> Idle(t)]
  /\ conn = [o \in Observers |-> "new"]
  /\ inbox = [o \in Observers |-> << >>]
  /\ reply = [h \in Handlers |-> NoReply]
  /\ now = 0
  /\ submitted = {}
  /\ nsubmit = 0
  /\ nrespond = 0
  /\ enqueued = << >>
  /\ alerted = << >>
  /\ responded = << >>
  /\ last_run = NoRun
  /\ investigation_templates = Templates
  /\ ninvestigate = 0
  /\ joined = [o \in Observers |-> -1]

Init ==
  /\ Boot
  /\ probe = NoProbe

\* ------------------------------------------------------------ small helpers
\* a count written back from a value read when the stage had done nothing
Processed_Stale(metrics, stage, time) ==
  [metrics EXCEPT ![stage] = [processed     |-> 1,
                              errors        |-> @.errors,
                              last_activity |-> time]]

\* metrics[stage]["processed"] += 1; metrics[stage]["last_activity"] = now
Processed(metrics, stage, time) ==
  [metrics EXCEPT ![stage] = [processed     |-> @.processed + 1,
                              errors        |-> @.errors,
                              last_activity |-> time]]

\* an error that starts the stage's processed count afresh
Errored_Resets(metrics, stage) ==
  [metrics EXCEPT ![stage] = [processed     |-> 0,
                              errors        |-> @.errors + 1,
                              last_activity |-> @.last_activity]]

\* metrics[stage]["errors"] += 1
Errored(metrics, stage) ==
  [metrics EXCEPT ![stage].errors = @ + 1]

\* the dict built from a FraudAlert for the alert queue and the broadcast
AlertDict(alert, user_id) ==
  [transaction_id     |-> alert.transaction_id,
   user_id            |-> user_id,
   risk_score         |-> alert.risk_score,
   risk_factors       |-> alert.risk_factors,
   severity           |-> alert.severity,
   recommended_action |-> alert.recommended_action]

\* the dict respond_to_alert builds: no user_id key
AlertData(alert) ==
  [transaction_id     |-> alert.transaction_id,
   risk_score         |-> alert.risk_score,
   risk_factors       |-> alert.risk_factors,
   severity           |-> alert.severity,
   recommended_action |-> alert.recommended_action]

\* active_alerts[alert.transaction_id] = alert
StoreAlert_Reset(alerts, alert) ==
  [i \in TxnIds |-> IF i = alert.transaction_id THEN alert ELSE NoAlert]

StoreAlert(alerts, alert) ==
  [alerts EXCEPT ![alert.transaction_id] = alert]

\* asyncio.Queue: get takes the oldest entry, put adds behind the newest
QueueGet_Lifo(queue) ==
  [item |-> queue[Len(queue)], rest |-> SubSeq(queue, 1, Len(queue) - 1)]

QueueGet(queue) ==
  [item |-> Head(queue), rest |-> Tail(queue)]

\* put that stamps a transaction with the small hours of its processing
QueuePut_Restamp(queue, item) ==
  Append(queue, IF "timestamp" \in DOMAIN item
                  THEN [item EXCEPT !.timestamp = "2024-01-01T02:00:00"]
                  ELSE item)

QueuePut(queue, item) == Append(queue, item)

\* a pydantic ThreatResponse object
IsThreatResponse(x) == "actions_taken" \in DOMAIN x

\* json.dumps(message) returns (TRUE) or raises TypeError (FALSE)
json_dumps(message) ==
  LET d == message.data
  IN /\ ~IsThreatResponse(d)
     /\ ("response_result" \in DOMAIN d => ~IsThreatResponse(d.response_result))

\* --------------------------------------------------------------- broadcast
\* One pass of the body of "for websocket in websocket_connections": the
\* write to o succeeds when its socket is open, otherwise send_text raises
\* and o joins the local set disconnected.
Iteration(it, o) ==
  LET sent == conn[o] = "open"
  IN [it    |-> [it EXCEPT !.seen = @ \cup {o},
                           !.disconnected = IF sent THEN @ ELSE @ \cup {o}],
      inbox |-> IF sent THEN [inbox EXCEPT ![o] = Append(@, it.message)] ELSE inbox]

\* the observers a loop may visit when the broadcast is entered
EnterChoices(message) ==
  IF websocket_connections = {} \/ ~json_dumps(message)
    THEN {StopIteration} ELSE websocket_connections

\* broadcast_alert / broadcast_response from its first line to the first
\* suspension (the await of send_text) or to its end
BroadcastEnter(message, o) ==
  IF websocket_connections = {}
    THEN [outcome |-> "done", it |-> NoIter,
          conns |-> websocket_connections, inbox |-> inbox]
  ELSE IF ~json_dumps(message)
    \* json.dumps raises before any await: every observer joins disconnected
    THEN [outcome |-> "done", it |-> NoIter,
          conns |-> websocket_connections \ websocket_connections, inbox |-> inbox]
  ELSE LET it0 == [message |-> message, used |-> Cardinality(websocket_connections),
                   seen |-> {}, snap |-> websocket_connections, disconnected |-> {}]
           r   == Iteration(it0, o)
       IN [outcome |-> "await", it |-> r.it,
           conns |-> websocket_connections, inbox |-> r.inbox]

\* what the set iterator may yield when the loop is resumed: an observer
\* present since the loop began must still be visited, one added since may
\* or may not be
NextChoices(it) ==
  LET rest == websocket_connections \ it.seen
  IN IF Cardinality(websocket_connections) # it.used THEN {StopIteration}
     ELSE rest \cup (IF rest \cap it.snap = {} THEN {StopIteration} ELSE {})

\* the loop resumed after a send_text: the next step of the set iterator
BroadcastNext(it, o) ==
  IF Cardinality(websocket_connections) # it.used
    \* RuntimeError: Set changed size during iteration
    THEN [outcome |-> "raise", it |-> NoIter,
          conns |-> websocket_connections, inbox |-> inbox]
  ELSE IF o = StopIteration
    THEN [outcome |-> "done", it |-> NoIter,
          conns |-> websocket_connections \ it.disconnected, inbox |-> inbox]
  ELSE LET r == Iteration(it, o)
       IN [outcome |-> "await", it |-> r.it,
           conns |-> websocket_connections, inbox |-> r.inbox]

\* a worker whose loop is left by the exception of a unit
Resume_LoopEnds(t, outcome, it, item, metrics, tm) ==
  /\ task' = [task EXCEPT ![t] = IF outcome = "await"
                                   THEN [pc |-> "broadcast", item |-> item, it |-> it]
                                 ELSE IF outcome = "raise" /\ t \in {"txw", "alw"}
                                   THEN [pc |-> "ended", item |-> NoItem, it |-> NoIter]
                                 ELSE Idle(t)]
  /\ agent_metrics' =
       IF outcome = "raise" /\ t = "txw" THEN Errored(metrics, "fraud_detection")
       ELSE IF outcome = "raise" /\ t \in {"alw", "resp"}
         THEN Errored(metrics, "threat_response")
       ELSE metrics
  /\ now' = IF outcome = "raise" /\ t # "gen" THEN tm + 1 ELSE tm
  /\ IF outcome = "done" /\ t = "gen"
       THEN /\ transaction_queue' = QueuePut(transaction_queue, item.txn)
            /\ enqueued' = Append(enqueued, item.txn.id)
       ELSE UNCHANGED << transaction_queue, enqueued >>
  /\ reply' =
       IF outcome = "await" \/ t \in {"txw", "alw"} THEN reply
       ELSE IF outcome = "raise" THEN [reply EXCEPT ![t] = [code |-> 500]]
       ELSE IF t = "gen"
         THEN [reply EXCEPT ![t] = [code |-> 200, status |-> "generated",
                                    transaction_id |-> item.txn.id,
                                    risk_score |-> item.alert.risk_score,
                                    severity |-> item.alert.severity]]
       ELSE [reply EXCEPT ![t] = [code |-> 200, status |-> "success",
                                  alert_id |-> item.response.alert_id,
                                  response_details |-> item.response]]

\* The code of task t that follows its broadcast, or the suspension of t in
\* the broadcast.  metrics and tm are the metrics and the clock as the
\* handler has left them so far.
Resume(t, outcome, it, item, metrics, tm) ==
  /\ task' = [task EXCEPT ![t] = IF outcome = "await"
                                   THEN [pc |-> "broadcast", item |-> item, it |-> it]
                                   ELSE Idle(t)]
  /\ agent_metrics' =
       IF outcome = "raise" /\ t = "txw" THEN Errored(metrics, "fraud_detection")
       ELSE IF outcome = "raise" /\ t \in {"alw", "resp"}
         THEN Errored(metrics, "threat_response")
       ELSE metrics
  /\ now' = IF outcome = "raise" /\ t # "gen" THEN tm + 1 ELSE tm
  /\ IF outcome = "done" /\ t = "gen"
       THEN /\ transaction_queue' = QueuePut(transaction_queue, item.txn)
            /\ enqueued' = Append(enqueued, item.txn.id)
       ELSE UNCHANGED << transaction_queue, enqueued >>
  /\ reply' =
       IF outcome = "await" \/ t \in {"txw", "alw"} THEN reply
       ELSE IF outcome = "raise" THEN [reply EXCEPT ![t] = [code |-> 500]]
       ELSE IF t = "gen"
         THEN [reply EXCEPT ![t] = [code |-> 200, status |-> "generated",
                                    transaction_id |-> item.txn.id,
                                    risk_score |-> item.alert.risk_score,
                                    severity |-> item.alert.severity]]
       ELSE [reply EXCEPT ![t] = [code |-> 200, status |-> "success",
                                  alert_id |-> item.response.alert_id,
                                  response_details |-> item.response]]

\* ---------------------------------------------------------------- handlers
\* POST /api/transactions/analyze.  The alert is computed, counted and
\* stored; the put names transaction_data, which is not defined in the
\* handler, so NameError is raised and the except clause answers 500.
analyze_transaction(txn, raised, narr) ==
  /\ nsubmit < MaxSubmit
  /\ LET alert == process_transaction_alert(txn, raised, narr)
     IN /\ agent_metrics' = Processed(agent_metrics, "fraud_detection", now + 1)
        /\ active_alerts' = StoreAlert(active_alerts, alert)
        /\ reply' = [reply EXCEPT !["analyze"] =
                       [code |-> 500, detail |-> "name 'transaction_data' is not defined"]]
  /\ now' = now + 1
  /\ submitted' = submitted \cup {txn}
  /\ nsubmit' = nsubmit + 1
  /\ UNCHANGED << websocket_connections, transaction_queue, alert_queue, task, conn,
                  inbox, nrespond, enqueued, alerted, responded, last_run >>
  /\ UNCHANGED << probe, investigation_templates, ninvestigate, joined >>

\* POST /api/test/generate-transaction, up to its first suspension
generate_test_transaction(txn, raised, narr, o) ==
  /\ nsubmit < MaxSubmit
  /\ task["gen"].pc = "idle"
  /\ LET alert   == process_transaction_alert(txn, raised, narr)
         message == [type |-> "fraud_alert", data |-> AlertDict(alert, txn.user_id)]
     IN /\ o \in EnterChoices(message)
        /\ active_alerts' = StoreAlert(active_alerts, alert)
        /\ LET b == BroadcastEnter(message, o)
           IN /\ websocket_connections' = b.conns
              /\ inbox' = b.inbox
              /\ Resume("gen", b.outcome, b.it, [txn |-> txn, alert |-> alert],
                        Processed(agent_metrics, "fraud_detection", now + 1), now + 1)
  /\ submitted' = submitted \cup {txn}
  /\ nsubmit' = nsubmit + 1
  /\ UNCHANGED << alert_queue, conn, nrespond, alerted, responded, last_run >>
  /\ UNCHANGED << probe, investigation_templates, ninvestigate, joined >>

\* POST /api/alerts/{alert_id}/respond, up to the await of to_thread.  The
\* HTTPException(404) is raised inside the try block, whose except clause
\* counts an error and answers 500.
respond_to_alert(alert_id) ==
  /\ nrespond < MaxRespond
  /\ task["resp"].pc = "idle"
  /\ nrespond' = nrespond + 1
  /\ IF active_alerts[alert_id] = NoAlert
       THEN /\ agent_metrics' = Errored(agent_metrics, "threat_response")
            /\ now' = now + 1
            /\ reply' = [reply EXCEPT !["resp"] =
                           [code |-> 500, detail |-> "404: Alert not found"]]
            /\ UNCHANGED task
       ELSE /\ task' = [task EXCEPT !["resp"] =
                          [pc |-> "thread", item |-> AlertData(active_alerts[alert_id]),
                           it |-> NoIter]]
            /\ UNCHANGED << agent_metrics, now, reply >>
  /\ UNCHANGED << active_alerts, websocket_connections, transaction_queue, alert_queue,
                  conn, inbox, submitted, nsubmit, enqueued, alerted, responded,
                  last_run >>
  /\ UNCHANGED << probe, investigation_templates, ninvestigate, joined >>

\* respond_to_alert from the return of execute_threat_response on
respond_thread_done(failing, narr, o) ==
  /\ task["resp"].pc = "thread"
  /\ LET alert_data == task["resp"].item
         alert_id   == alert_data.transaction_id
         run        == execute_threat_response(alert_id, alert_data, failing, narr)
         message    == [type |-> "threat_response",
                        data |-> [alert_id |-> alert_id,
                                  response_result |-> run.response]]
     IN /\ failing <= Len(ResponsePlan(alert_data))
        /\ o \in EnterChoices(message)
        /\ last_run' = [via |-> "resp", alert |-> alert_data, failing |-> failing,
                        response |-> run.response, performed |-> run.performed]
        /\ LET b == BroadcastEnter(message, o)
           IN /\ websocket_connections' = b.conns
              /\ inbox' = b.inbox
              /\ Resume("resp", b.outcome, b.it,
                        [alert_data |-> alert_data, response |-> run.response],
                        Processed(agent_metrics, "threat_response", now + 1), now + 1)
  /\ UNCHANGED << active_alerts, alert_queue, conn, submitted, nsubmit, nrespond,
                  alerted, responded >>
  /\ UNCHANGED << probe, investigation_templates, ninvestigate, joined >>

\* ----------------------------------------------------------------- workers
\* process_transaction_queue: transaction_queue.get()
txw_get ==
  /\ task["txw"].pc = "get"
  /\ transaction_queue # << >>
  /\ task' = [task EXCEPT !["txw"] =
                [pc |-> "thread", item |-> QueueGet(transaction_queue).item,
                 it |-> NoIter]]
  /\ transaction_queue' = QueueGet(transaction_queue).rest
  /\ UNCHANGED << active_alerts, agent_metrics, websocket_connections, alert_queue,
                  conn, inbox, reply, now, submitted, nsubmit, nrespond, enqueued,
                  alerted, responded, last_run >>
  /\ UNCHANGED << probe, investigation_templates, ninvestigate, joined >>

\* process_transaction_queue from the return of process_transaction_alert on
txw_analysis_done(raised, narr, o) ==
  /\ task["txw"].pc = "thread"
  /\ LET txn        == task["txw"].item
         alert      == process_transaction_alert(txn, raised, narr)
         alert_dict == AlertDict(alert, txn.user_id)
         message    == [type |-> "fraud_alert", data |-> alert_dict]
     IN /\ o \in EnterChoices(message)
        /\ alert_queue' = QueuePut(alert_queue, alert_dict)
        /\ alerted' = Append(alerted, alert.transaction_id)
        /\ active_alerts' = StoreAlert(active_alerts, alert)
        /\ LET b == BroadcastEnter(message, o)
           IN /\ websocket_connections' = b.conns
              /\ inbox' = b.inbox
              /\ Resume("txw", b.outcome, b.it, txn,
                        Processed(agent_metrics, "fraud_detection", now + 1), now + 1)
  /\ UNCHANGED << conn, submitted, nsubmit, nrespond, responded, last_run >>
  /\ UNCHANGED << probe, investigation_templates, ninvestigate, joined >>

\* process_alert_queue: alert_queue.get()
alw_get ==
  /\ task["alw"].pc = "get"
  /\ alert_queue # << >>
  /\ task' = [task EXCEPT !["alw"] =
                [pc |-> "thread", item |-> QueueGet(alert_queue).item, it |-> NoIter]]
  /\ alert_queue' = QueueGet(alert_queue).rest
  /\ UNCHANGED << active_alerts, agent_metrics, websocket_connections,
                  transaction_queue, conn, inbox, reply, now, submitted, nsubmit,
                  nrespond, enqueued, alerted, responded, last_run >>
  /\ UNCHANGED << probe, investigation_templates, ninvestigate, joined >>

\* process_alert_queue from the return of execute_threat_response on
alw_response_done(failing, narr, o) ==
  /\ task["alw"].pc = "thread"
  /\ LET alert_data == task["alw"].item
         run        == execute_threat_response(alert_data.transaction_id, alert_data,
                                               failing, narr)
         message    == [type |-> "threat_response", data |-> run.response]
     IN /\ failing <= Len(ResponsePlan(alert_data))
        /\ o \in EnterChoices(message)
        /\ responded' = Append(responded, alert_data.transaction_id)
        /\ last_run' = [via |-> "alw", alert |-> alert_data, failing |-> failing,
                        response |-> run.response, performed |-> run.performed]
        /\ LET b == BroadcastEnter(message, o)
           IN /\ websocket_connections' = b.conns
              /\ inbox' = b.inbox
              /\ Resume("alw", b.outcome, b.it, alert_data,
                        Processed(agent_metrics, "threat_response", now + 1), now + 1)
  /\ UNCHANGED << active_alerts, alert_queue, conn, submitted, nsubmit, nrespond,
                  alerted >>
  /\ UNCHANGED << probe, investigation_templates, ninvestigate, joined >>

\* a task suspended in send_text is resumed
broadcast_step(t, o) ==
  /\ task[t].pc = "broadcast"
  /\ o \in NextChoices(task[t].it)
  /\ LET b == BroadcastNext(task[t].it, o)
     IN /\ websocket_connections' = b.conns
        /\ inbox' = b.inbox
        /\ Resume(t, b.outcome, b.it, task[t].item, agent_metrics, now)
  /\ UNCHANGED << active_alerts, alert_queue, conn, submitted, nsubmit, nrespond,
                  alerted, responded, last_run >>
  /\ UNCHANGED << probe, investigation_templates, ninvestigate, joined >>

\* ---------------------------------------------------------------- observers
\* websocket_endpoint: accept and add
ws_connect(o) ==
  /\ conn[o] = "new"
  /\ conn' = [conn EXCEPT ![o] = "open"]
  /\ websocket_connections' = websocket_connections \cup {o}
  /\ UNCHANGED << active_alerts, agent_metrics, transaction_queue, alert_queue, task,
                  inbox, reply, now, submitted, nsubmit, nrespond, enqueued, alerted,
                  responded, last_run >>
  /\ joined' = [joined EXCEPT ![o] = nsubmit]
  /\ UNCHANGED << probe, investigation_templates, ninvestigate >>

\* the peer goes away: writes to the socket fail from now on
socket_break(o) ==
  /\ conn[o] = "open"
  /\ conn' = [conn EXCEPT ![o] = "broken"]
  /\ UNCHANGED << active_alerts, agent_metrics, websocket_connections,
                  transaction_queue, alert_queue, task, inbox, reply, now, submitted,
                  nsubmit, nrespond, enqueued, alerted, responded, last_run >>
  /\ UNCHANGED << probe, investigation_templates, ninvestigate, joined >>

\* the handler that ends on WebSocketDisconnect without leaving the set
ws_disconnect_NoDiscard(o) ==
  /\ conn[o] \in {"open", "broken"}
  /\ conn' = [conn EXCEPT ![o] = "closed"]
  /\ UNCHANGED << active_alerts, agent_metrics, websocket_connections,
                  transaction_queue, alert_queue, task, inbox, reply, now, submitted,
                  nsubmit, nrespond, enqueued, alerted, responded, last_run >>
  /\ UNCHANGED << probe, investigation_templates, ninvestigate, joined >>

\* websocket_endpoint: receive_text raises WebSocketDisconnect
ws_disconnect(o) ==
  /\ conn[o] \in {"open", "broken"}
  /\ conn' = [conn EXCEPT ![o] = "closed"]
  /\ websocket_connections' = websocket_connections \ {o}
  /\ UNCHANGED << active_alerts, agent_metrics, transaction_queue, alert_queue, task,
                  inbox, reply, now, submitted, nsubmit, nrespond, enqueued, alerted,
                  responded, last_run >>
  /\ UNCHANGED << probe, investigation_templates, ninvestigate, joined >>

\* the texts a client sends over its socket
ClientTexts ==
  { "{\"type\": \"ping\"}",
    "{\"type\": \"subscribe\", \"channels\": [\"critical\"]}",
    "{\"type\": \"subscribe\"}",
    "{\"type\": \"status\"}",
    "[\"ping\"]",
    "ping" }

\* json.loads(data): the kind of value parsed and, for a dict, its items;
\* kind is JSONDecodeError when the parse raises
json_loads(data) ==
  CASE data = "{\"type\": \"ping\"}" -> [kind |-> "dict", value |-> [type |-> "ping"]]
    [] data = "{\"type\": \"subscribe\", \"channels\": [\"critical\"]}" ->
         [kind |-> "dict", value |-> [type |-> "subscribe", channels |-> << "critical" >>]]
    [] data = "{\"type\": \"subscribe\"}" ->
         [kind |-> "dict", value |-> [type |-> "subscribe"]]
    [] data = "{\"type\": \"status\"}" -> [kind |-> "dict", value |-> [type |-> "status"]]
    [] data = "[\"ping\"]" -> [kind |-> "list"]
    [] OTHER -> [kind |-> "JSONDecodeError"]

\* the answer that confirms every subscription as one to all channels
Answer_ConfirmsAll(message) ==
  IF message.type = "ping" THEN << [type |-> "pong"] >>
  ELSE IF message.type = "subscribe"
    THEN << [type |-> "subscription_confirmed", subscribed_to |-> << "all" >>] >>
  ELSE << >>

\* the body of the receive loop for a parsed dict: what is written back
Answer(message) ==
  IF message.type = "ping" THEN << [type |-> "pong"] >>
  ELSE IF message.type = "subscribe"
    THEN << [type |-> "subscription_confirmed",
             subscribed_to |-> IF "channels" \in DOMAIN message
                                 THEN message.channels ELSE << "all" >>] >>
  ELSE << >>

\* websocket_endpoint: one turn of the receive loop.  A text that is not
\* JSON raises in json.loads and a JSON value that is no dict raises in
\* message.get; both end the handler through "except Exception".
ws_message(o, data) ==
  /\ conn[o] = "open"
  /\ Len(inbox[o]) < MaxInbox
  /\ LET parsed == json_loads(data)
     IN IF parsed.kind # "dict"
          THEN /\ websocket_connections' = websocket_connections \ {o}
               /\ conn' = [conn EXCEPT ![o] = "closed"]
               /\ UNCHANGED inbox
          ELSE /\ inbox' = [inbox EXCEPT ![o] = @ \o Answer(parsed.value)]
               /\ UNCHANGED << websocket_connections, conn >>
  /\ UNCHANGED << active_alerts, agent_metrics, transaction_queue, alert_queue, task,
                  reply, now, submitted, nsubmit, nrespond, enqueued, alerted,
                  responded, last_run >>
  /\ UNCHANGED << probe, investigation_templates, ninvestigate, joined >>

\* GET /api/status: the part of the answer that reads the Alert Store
get_system_status ==
  [system_status |-> "operational",
   active_alerts |-> Cardinality({ i \in TxnIds : active_alerts[i] # NoAlert })]

\* POST /api/cases/investigate: the investigation in its thread, then the
\* metrics of the case manager; an exception out of the thread is counted
\* and answered with 500
investigate_case(case_id, request_type, raised, extension, confidence) ==
  /\ ninvestigate < MaxInvestigate
  /\ ninvestigate' = ninvestigate + 1
  /\ LET r == assist_case_investigation(investigation_templates, case_id,
                                        request_type, raised, extension, confidence)
     IN /\ investigation_templates' = r.templates
        /\ IF r.result.status = "raised"
             THEN /\ agent_metrics' = Errored(agent_metrics, "case_manager")
                  /\ reply' = [reply EXCEPT !["investigate"] = [code |-> 500]]
             ELSE /\ agent_metrics' = Processed(agent_metrics, "case_manager", now + 1)
                  /\ reply' = [reply EXCEPT !["investigate"] =
                                 [code |-> 200, result |-> r.result]]
  /\ now' = now + 1
  /\ UNCHANGED << active_alerts, websocket_connections, transaction_queue, alert_queue,
                  task, conn, inbox, submitted, nsubmit, nrespond, enqueued, alerted,
                  responded, last_run, probe, joined >>

\* --------------------------------------------------------------- classifier
\* scores with four decimals: score/ScoreUnit
ScoreUnit == 10000
Scores == 0..ScoreUnit

\* the ladder applied to the score at hand
decide_severity ==
  /\ probe.score >= 0
  /\ "decision" \notin DOMAIN probe
  /\ probe' = [score |-> probe.score, decision |-> Ladder(probe.score, ScoreUnit)]
  /\ UNCHANGED << active_alerts, agent_metrics, websocket_connections,
                  transaction_queue, alert_queue, task, conn, inbox, reply, now,
                  submitted, nsubmit, nrespond, enqueued, alerted, responded, last_run,
                  investigation_templates, ninvestigate, joined >>

\* ------------------------------------------------------------------ signals
\* amounts in quarters of a dollar, which binary floating point holds
\* exactly: 0.00, 0.25, ... 6000.00
AmountUnit == 4
ProbeAmounts == 0..(6000 * AmountUnit)

ProbeTimestamps ==
  { "2024-01-01T02:00:00", "2024-01-01T02:00:00Z", "2024-01-01T05:59:00",
    "2024-01-01T06:00:00", "2024-01-01T14:00:00", "2024-01-01T23:00:00",
    "2024-01-01T23:30:00", "yesterday", "" }

\* analyze_transaction_amount on the amount at hand
amount_signal ==
  /\ "amount" \in DOMAIN probe
  /\ "result" \notin DOMAIN probe
  /\ probe' = [amount |-> probe.amount,
               result |-> AmountSignal(probe.amount, AmountUnit)]
  /\ UNCHANGED << active_alerts, agent_metrics, websocket_connections,
                  transaction_queue, alert_queue, task, conn, inbox, reply, now,
                  submitted, nsubmit, nrespond, enqueued, alerted, responded, last_run,
                  investigation_templates, ninvestigate, joined >>

\* analyze_time_pattern on the timestamp at hand
time_signal ==
  /\ "timestamp" \in DOMAIN probe
  /\ "result" \notin DOMAIN probe
  /\ probe' = [timestamp |-> probe.timestamp,
               result |-> analyze_time_pattern(probe.timestamp)]
  /\ UNCHANGED << active_alerts, agent_metrics, websocket_connections,
                  transaction_queue, alert_queue, task, conn, inbox, reply, now,
                  submitted, nsubmit, nrespond, enqueued, alerted, responded, last_run,
                  investigation_templates, ninvestigate, joined >>

\* ----------------------------------------------------------------- shutdown
\* a worker whose CancelledError has been delivered: the exception is not an
\* Exception, so the except clause of the loop does not catch it and the
\* coroutine ends at the await it was suspended in
Cancelled == [pc |-> "cancelled", item |-> NoItem, it |-> NoIter]

\* lifespan after the yield: transaction_task.cancel(); alert_task.cancel().
\* A worker suspended in get() leaves the queue as it is; one suspended in
\* to_thread or in send_text loses the rest of its loop body.
lifespan_shutdown ==
  /\ task["txw"].pc # "cancelled"
  /\ task' = [t \in Tasks |-> IF t \in {"txw", "alw"} THEN Cancelled ELSE task[t]]
  /\ UNCHANGED << active_alerts, agent_metrics, websocket_connections,
                  transaction_queue, alert_queue, conn, inbox, reply, now, submitted,
                  nsubmit, nrespond, enqueued, alerted, responded, last_run, probe,
                  investigation_templates, ninvestigate, joined >>

\* ------------------------------------------------------------ specifications
Choices == Observers \cup {StopIteration}

\* The pipeline with failing stages and a failing narrative service; no
\* observer connects.
Next ==
  \/ \E txn \in PipelineTransactions, raised \in BOOLEAN, narr \in NarrativeOutcomes :
       analyze_transaction(txn, raised, narr)
  \/ \E txn \in GeneratedTransactions, raised \in BOOLEAN, narr \in NarrativeOutcomes,
        o \in Choices :
       generate_test_transaction(txn, raised, narr, o)
  \/ \E alert_id \in TxnIds : respond_to_alert(alert_id)
  \/ \E failing \in Failing, narr \in NarrativeOutcomes, o \in Choices :
       respond_thread_done(failing, narr, o)
  \/ txw_get
  \/ \E raised \in BOOLEAN, narr \in NarrativeOutcomes, o \in Choices :
       txw_analysis_done(raised, narr, o)
  \/ alw_get
  \/ \E failing \in Failing, narr \in NarrativeOutcomes, o \in Choices :
       alw_response_done(failing, narr, o)

Spec == Init /\ [][Next]_vars

\* The pipeline fed by generate_test_transaction while observers connect,
\* lose their peer and disconnect; no stage fails.
NextObservers ==
  \/ \E txn \in ObservedTransactions, o \in Choices :
       generate_test_transaction(txn, FALSE, "ok", o)
  \/ txw_get
  \/ \E o \in Choices : txw_analysis_done(FALSE, "ok", o)
  \/ alw_get
  \/ \E o \in Choices : alw_response_done(0, "ok", o)
  \/ \E t \in Tasks, o \in Choices : broadcast_step(t, o)
  \/ \E o \in Observers : ws_connect(o)
  \/ \E o \in Observers : socket_break(o)
  \/ \E o \in Observers : ws_disconnect(o)

SpecObservers == Init /\ [][NextObservers]_vars

\* Ingestion and the two consumers with failing stages and a failing
\* narrative service; no response is requested by hand and no observer
\* connects.
NextIngest ==
  \/ \E txn \in PipelineTransactions, raised \in BOOLEAN, narr \in NarrativeOutcomes :
       analyze_transaction(txn, raised, narr)
  \/ \E txn \in GeneratedTransactions, raised \in BOOLEAN, narr \in NarrativeOutcomes,
        o \in Choices :
       generate_test_transaction(txn, raised, narr, o)
  \/ txw_get
  \/ \E raised \in BOOLEAN, narr \in NarrativeOutcomes, o \in Choices :
       txw_analysis_done(raised, narr, o)
  \/ alw_get
  \/ \E failing \in Failing, narr \in NarrativeOutcomes, o \in Choices :
       alw_response_done(failing, narr, o)

SpecIngest == Init /\ [][NextIngest]_vars

\* Ingestion and the two consumers until the application shuts down; no
\* stage fails and no observer connects.
NextShutdown ==
  \/ \E txn \in GeneratedTransactions, o \in Choices :
       generate_test_transaction(txn, FALSE, "ok", o)
  \/ txw_get
  \/ \E o \in Choices : txw_analysis_done(FALSE, "ok", o)
  \/ alw_get
  \/ \E o \in Choices : alw_response_done(0, "ok", o)
  \/ lifespan_shutdown

SpecShutdown == Init /\ [][NextShutdown]_vars

\* The classifier alone, on every score of [0,1] with four decimals.
InitClassifier ==
  /\ Boot
  /\ probe \in { [score |-> s] : s \in Scores }

NextClassifier == decide_severity

SpecClassifier == InitClassifier /\ [][NextClassifier]_vars

\* Ingestion and the two consumers when no stage raises; the narrative
\* service may fail.  No response is requested by hand and no observer
\* connects.
NextRerun ==
  \/ \E txn \in PipelineTransactions, narr \in NarrativeOutcomes :
       analyze_transaction(txn, FALSE, narr)
  \/ \E txn \in GeneratedTransactions, narr \in NarrativeOutcomes, o \in Choices :
       generate_test_transaction(txn, FALSE, narr, o)
  \/ txw_get
  \/ \E narr \in NarrativeOutcomes, o \in Choices : txw_analysis_done(FALSE, narr, o)
  \/ alw_get
  \/ \E narr \in NarrativeOutcomes, o \in Choices : alw_response_done(0, narr, o)

SpecRerun == Init /\ [][NextRerun]_vars

\* The case manager alone: investigations that succeed and investigations
\* whose agent raises.
NextCases ==
  \E case_id \in CaseIds, request_type \in RequestTypes, raised \in BOOLEAN,
     extension \in Extensions, confidence \in Confidences :
    investigate_case(case_id, request_type, raised, extension, confidence)

SpecCases == Init /\ [][NextCases]_vars

\* Every stage that counts: generated transactions through both consumers,
\* responses requested by hand for stored and for unknown alerts, and case
\* investigations.  No stage fails and no observer connects.
NextMetrics ==
  \/ \E txn \in ObservedTransactions, o \in Choices :
       generate_test_transaction(txn, FALSE, "ok", o)
  \/ txw_get
  \/ \E o \in Choices : txw_analysis_done(FALSE, "ok", o)
  \/ alw_get
  \/ \E o \in Choices : alw_response_done(0, "ok", o)
  \/ \E alert_id \in TxnIds : respond_to_alert(alert_id)
  \/ \E o \in Choices : respond_thread_done(0, "ok", o)
  \/ investigate_case("case_1", "unknown_request", FALSE, << >>, 83)

SpecMetrics == Init /\ [][NextMetrics]_vars

\* An observer that talks: clients connect and disconnect and the first of
\* them sends texts, while generated transactions are analysed and
\* broadcast by their handler.
NextChannel ==
  \/ \E txn \in ObservedTransactions, o \in Choices :
       generate_test_transaction(txn, FALSE, "ok", o)
  \/ \E o \in Choices : broadcast_step("gen", o)
  \/ \E o \in Observers : ws_connect(o)
  \/ \E data \in ClientTexts : ws_message("ws_1", data)
  \/ \E o \in Observers : ws_disconnect(o)

SpecChannel == Init /\ [][NextChannel]_vars

\* The amount analyzer and the time analyzer alone, on every amount of
\* ProbeAmounts and every timestamp of ProbeTimestamps.
InitSignals ==
  /\ Boot
  /\ probe \in { [amount |-> a] : a \in ProbeAmounts }
               \cup { [timestamp |-> ts] : ts \in ProbeTimestamps }

NextSignals ==
  \/ amount_signal
  \/ time_signal

SpecSignals == InitSignals /\ [][NextSignals]_vars

\* Ingestion and the two consumers when transactions with an unparsable
\* timestamp are posted next to generated ones; no stage fails and no
\* observer connects.
NextMalformed ==
  \/ \E txn \in MalformedTransactions : analyze_transaction(txn, FALSE, "ok")
  \/ \E txn \in GeneratedTransactions, o \in Choices :
       generate_test_transaction(txn, FALSE, "ok", o)
  \/ txw_get
  \/ \E o \in Choices : txw_analysis_done(FALSE, "ok", o)
  \/ alw_get
  \/ \E o \in Choices : alw_response_done(0, "ok", o)

SpecMalformed == Init /\ [][NextMalformed]_vars

\* the record drawn again and again under fair scheduling
LiveTransactions == { t \in ObservedTransactions : t.id = "txn_1" }

\* The pipeline under fair scheduling: generated transactions go through
\* both consumers while observers connect, so that units fail in the
\* broadcast; the event loop resumes every task that can run.
NextLive ==
  \/ \E txn \in LiveTransactions, o \in Choices :
       generate_test_transaction(txn, FALSE, "ok", o)
  \/ txw_get
  \/ \E o \in Choices : txw_analysis_done(FALSE, "ok", o)
  \/ alw_get
  \/ \E o \in Choices : alw_response_done(0, "ok", o)
  \/ \E t \in Tasks, o \in Choices : broadcast_step(t, o)
  \/ \E o \in Observers : ws_connect(o)

FairLive ==
  /\ WF_vars(txw_get)
  /\ WF_vars(\E o \in Choices : txw_analysis_done(FALSE, "ok", o))
  /\ WF_vars(alw_get)
  /\ WF_vars(\E o \in Choices : alw_response_done(0, "ok", o))
  /\ WF_vars(\E t \in Tasks, o \in Choices : broadcast_step(t, o))

SpecLive == Init /\ [][NextLive]_vars /\ FairLive

\* ================================================================== claims
Last(q) == q[Len(q)]
IsPrefix(a, b) == Len(a) <= Len(b) /\ SubSeq(b, 1, Len(a)) = a
Stored == { i \in TxnIds : active_alerts[i] # NoAlert }
SubmittedIds == { t.id : t \in submitted }
Quiescent ==
  /\ transaction_queue = << >>
  /\ alert_queue = << >>
  /\ \A t \in Tasks : task[t] = Idle(t)

\* C1: a response requested for an identifier that is not in the Alert Store
\* is answered with not-found (404) and leaves the Alert Store, every metrics
\* counter and the observer set as they were.
C1_NotFoundMutatesNothing ==
  [][ \A alert_id \in TxnIds :
        (active_alerts[alert_id] = NoAlert /\ respond_to_alert(alert_id))
          => /\ reply'["resp"].code = 404
             /\ UNCHANGED << active_alerts, agent_metrics, websocket_connections >> ]_vars

\* C2: every submission to analyze_transaction is answered "accepted" with
\* the computed risk score, and the submitted record is then the newest entry
\* of the ingestion queue.
C2_AcceptedAndEnqueued ==
  [][ \A txn \in PipelineTransactions, raised \in BOOLEAN, narr \in NarrativeOutcomes :
        analyze_transaction(txn, raised, narr)
          => /\ reply'["analyze"].code = 200
             /\ reply'["analyze"].risk_score = active_alerts'[txn.id].risk_score
             /\ transaction_queue' = Append(transaction_queue, txn) ]_vars

\* C3: every alert in the Alert Store or on the alert queue has the severity
\* the threshold ladder gives its own risk score.
C3_SeverityFollowsLadder ==
  /\ \A i \in Stored :
       active_alerts[i].severity = Classify(active_alerts[i].risk_score).severity
  /\ \A k \in 1..Len(alert_queue) :
       alert_queue[k].severity = Classify(alert_queue[k].risk_score).severity

\* the tier a list of executed calls belongs to, by its first call
ExecutedTier(performed) ==
  LET first == performed[1]
  IN IF first.action = "block_transaction" THEN "CRITICAL"
     ELSE IF first.action = "require_verification" /\ first.detail = "2FA" THEN "HIGH"
     ELSE IF first.action = "require_verification" THEN "MEDIUM"
     ELSE "LOW"

\* the tier a recommended action names
RecommendedTier(recommended_action) ==
  CASE recommended_action = "BLOCK_TRANSACTION_AND_FREEZE_ACCOUNT" -> "CRITICAL"
    [] recommended_action = "REQUIRE_ADDITIONAL_VERIFICATION" -> "HIGH"
    [] recommended_action = "REQUIRE_BASIC_VERIFICATION" -> "MEDIUM"
    [] OTHER -> "LOW"

\* C4: for every alert that reaches the Response Executor, the tier of the
\* executed actions is the tier of the alert's stored severity and of its
\* recommended action.
C4_ExecutedMatchesRecommended ==
  (last_run.via # "none" /\ last_run.failing = 0)
    => /\ ExecutedTier(last_run.performed) = last_run.alert.severity
       /\ ExecutedTier(last_run.performed)
            = RecommendedTier(last_run.alert.recommended_action)

\* the action list the claim gives for a severity tier
TierActions(severity) ==
  CASE severity = "CRITICAL" ->
         << "Blocked transaction", "Froze account for 24 hours",
            "Sent urgent fraud alert", "Logged critical security event" >>
    [] severity = "HIGH" ->
         << "Required 2FA verification", "Sent security alert",
            "Logged high-risk security event" >>
    [] severity = "MEDIUM" ->
         << "Required SMS verification", "Logged medium-risk security event" >>
    [] OTHER -> << "Logged low-risk security event" >>

\* C5: the action list of a completed response is the list of the alert's
\* severity tier, whatever the alert's score and risk factors.
C5_ActionsBySeverityAlone ==
  (last_run.via # "none" /\ last_run.response.status = "completed")
    => last_run.response.actions_taken = TierActions(last_run.alert.severity)

\* a sequence without its k-th entry (k = 0: the sequence itself)
Without(seq, k) ==
  [i \in 1..(IF k = 0 THEN Len(seq) ELSE Len(seq) - 1) |->
     IF k = 0 \/ i < k THEN seq[i] ELSE seq[i + 1]]

\* C6: when one action of a tier fails, every other action of the tier has
\* still run, and the response lists exactly the actions that completed, in
\* execution order.
C6_FailureDoesNotStopLaterActions ==
  last_run.via # "none"
    => LET completed == Without(ResponsePlan(last_run.alert), last_run.failing)
       IN /\ last_run.performed = completed
          /\ last_run.response.actions_taken
               = [i \in 1..Len(completed) |-> completed[i].text]

\* C7: a broadcast removes an observer from the observer set only when the
\* write to that observer failed; observers whose socket accepts writes stay.
C7_OnlyFailedObserversDropped ==
  [][ conn' = conn
        => \A o \in websocket_connections \ websocket_connections' :
             conn[o] = "broken" ]_vars

\* C8: when a response is executed while observers are connected and their
\* sockets accept writes, each of them receives one threat_response message
\* for that alert and is still in the observer set.
C8_ResponseReachesObservers ==
  [][ last_run' # last_run
        => \A o \in websocket_connections :
             conn[o] = "open"
               => /\ o \in websocket_connections'
                  /\ Len(inbox'[o]) = Len(inbox[o]) + 1
                  /\ Last(inbox'[o]).type = "threat_response" ]_vars

\* C9: once N transactions with pairwise distinct identifiers have been
\* submitted and all processing has finished, the Alert Store holds exactly
\* N entries, one per submitted identifier, each an alert computed for a
\* submitted transaction of that identifier.
C9_OneEntryPerTransaction ==
  (Quiescent /\ Cardinality(SubmittedIds) = nsubmit)
    => /\ Cardinality(Stored) = nsubmit
       /\ Stored = SubmittedIds
       /\ \A i \in Stored :
            \E txn \in submitted, raised \in BOOLEAN, narr \in NarrativeOutcomes :
              /\ txn.id = i
              /\ active_alerts[i] = process_transaction_alert(txn, raised, narr)

C9_Witness ==
  /\ Quiescent
  /\ nsubmit = 2
  /\ Cardinality(SubmittedIds) = 2
  /\ Cardinality(Stored) = 2
  /\ Len(alerted) >= 1
  /\ reply["analyze"] # NoReply

\* C10: both queues are first-in first-out: alerts are put on the alert queue
\* in the order their transactions were enqueued, each only when its analysis
\* has completed, and the alert consumer responds in the order the alerts were
\* enqueued.
C10_QueuesAreFifo ==
  /\ IsPrefix(alerted, enqueued)
  /\ IsPrefix(responded, alerted)
  /\ Len(alerted) + (IF task["txw"].pc = "thread" THEN 1 ELSE 0) + Len(transaction_queue)
       = Len(enqueued)
  /\ Len(responded) + (IF task["alw"].pc = "thread" THEN 1 ELSE 0) + Len(alert_queue)
       = Len(alerted)
  /\ \A k \in 1..Len(transaction_queue) :
       transaction_queue[k].id = enqueued[Len(enqueued) - Len(transaction_queue) + k]
  /\ \A k \in 1..Len(alert_queue) :
       alert_queue[k].transaction_id = alerted[Len(alerted) - Len(alert_queue) + k]

C10_Witness ==
  /\ Len(responded) = 2
  /\ responded = enqueued
  /\ responded[1] # responded[2]

\* C11: when the worker loops are cancelled at shutdown, every transaction
\* already taken from the ingestion queue has been analysed, counted and its
\* alert put on the alert queue, and every alert already taken from the alert
\* queue has had its response executed and counted.
C11_InFlightUnitFinished ==
  /\ task["txw"].pc = "cancelled"
       => /\ Len(alerted) + Len(transaction_queue) = Len(enqueued)
          /\ agent_metrics["fraud_detection"].processed = nsubmit + Len(alerted)
  /\ task["alw"].pc = "cancelled"
       => /\ Len(responded) + Len(alert_queue) = Len(alerted)
          /\ agent_metrics["threat_response"].processed = Len(responded)

\* C12: an unexpected error inside the analysis stage still hands the
\* caller the FraudAlert of the fallback rule and raises the fraud_detection
\* error counter by one; an unexpected error inside execute_threat_response
\* still hands the caller the fallback ThreatResponse and raises the
\* threat_response error counter by one.
C12_FallbackCountsError ==
  [][ /\ \A narr \in NarrativeOutcomes, o \in Choices :
           txw_analysis_done(TRUE, narr, o)
             => /\ active_alerts'[task["txw"].item.id]
                     = _fallback_fraud_alert(task["txw"].item)
                /\ Last(alert_queue').transaction_id = task["txw"].item.id
                /\ agent_metrics'["fraud_detection"].errors
                     = agent_metrics["fraud_detection"].errors + 1
      /\ \A failing \in 1..MaxPlanLen, narr \in NarrativeOutcomes, o \in Choices :
           alw_response_done(failing, narr, o)
             => /\ last_run'.response
                     = _fallback_response(task["alw"].item.transaction_id, task["alw"].item)
                /\ agent_metrics'["threat_response"].errors
                     = agent_metrics["threat_response"].errors + 1 ]_vars

\* C13: the fallback rule classifies a transaction as MEDIUM when its amount
\* is above 1000 or its location contains "unknown", either condition alone
\* sufficing, and as LOW otherwise.
C13_FallbackRule ==
  [][ \A txn \in Transactions, narr \in NarrativeOutcomes :
        (analyze_transaction(txn, TRUE, narr)
           \/ \E o \in Choices : generate_test_transaction(txn, TRUE, narr, o))
          => active_alerts'[txn.id].severity
               = IF txn.amount > 1000 \/ LowerContainsUnknown(txn.location)
                   THEN "MEDIUM" ELSE "LOW" ]_vars

\* the decision fields of a FraudAlert
Decision(alert) ==
  [risk_score |-> alert.risk_score, severity |-> alert.severity,
   recommended_action |-> alert.recommended_action]

Sentinel == "Error calling Bedrock model"

\* C14: a failed narrative call changes no decision: the score, severity and
\* recommended action of every alert, and the action list and completed
\* status of every response, are those obtained with the other outcome of the
\* narrative call; on failure the narrative text is the sentinel string.
C14_NarrativeNeverDecides ==
  [][ /\ \A txn \in submitted', raised \in BOOLEAN, narr \in NarrativeOutcomes :
           (analyze_transaction(txn, raised, narr)
              \/ \E o \in Choices : generate_test_transaction(txn, raised, narr, o))
             => /\ \A other \in NarrativeOutcomes :
                     Decision(active_alerts'[txn.id])
                       = Decision(process_transaction_alert(txn, raised, other))
                /\ (~raised /\ narr = "fail")
                     => active_alerts'[txn.id].agent_reasoning = Sentinel
      /\ \A raised \in BOOLEAN, narr \in NarrativeOutcomes, o \in Choices :
           txw_analysis_done(raised, narr, o)
             => /\ \A other \in NarrativeOutcomes :
                     /\ Decision(Last(alert_queue'))
                          = Decision(process_transaction_alert(task["txw"].item, raised, other))
                     /\ Decision(active_alerts'[task["txw"].item.id])
                          = Decision(Last(alert_queue'))
                /\ (~raised /\ narr = "fail")
                     => active_alerts'[task["txw"].item.id].agent_reasoning = Sentinel
      /\ \A narr \in NarrativeOutcomes, o \in Choices :
           alw_response_done(0, narr, o)
             => /\ last_run'.response.status = "completed"
                /\ last_run'.response.actions_taken
                     = [i \in 1..Len(ResponsePlan(task["alw"].item)) |->
                          ResponsePlan(task["alw"].item)[i].text]
                /\ last_run'.performed = ResponsePlan(task["alw"].item)
                /\ narr = "fail" => last_run'.response.agent_reasoning = Sentinel ]_vars

C14_Witness ==
  /\ last_run.via = "alw"
  /\ last_run.failing = 0
  /\ last_run.response.status = "completed"
  /\ last_run.response.agent_reasoning = Sentinel
  /\ Len(last_run.response.actions_taken) = 4
  /\ active_alerts[last_run.alert.transaction_id].agent_reasoning = Sentinel
  /\ active_alerts[last_run.alert.transaction_id].severity = "CRITICAL"

Tiers == {"CRITICAL", "HIGH", "MEDIUM", "LOW"}

\* the default recommended action of a tier
DefaultAction(tier) ==
  CASE tier = "CRITICAL" -> "BLOCK_TRANSACTION_AND_FREEZE_ACCOUNT"
    [] tier = "HIGH"     -> "REQUIRE_ADDITIONAL_VERIFICATION"
    [] tier = "MEDIUM"   -> "REQUIRE_BASIC_VERIFICATION"
    [] OTHER             -> "MONITOR_ONLY"

\* the tier the claim gives a score in ten-thousandths
TierOf(s) ==
  IF s >= 7000 THEN "CRITICAL"
  ELSE IF s >= 5000 THEN "HIGH"
  ELSE IF s >= 3000 THEN "MEDIUM"
  ELSE "LOW"

\* C15: the classifier gives every score of [0,1] exactly one tier, the first
\* that matches from the top: 0.70 is CRITICAL, 0.6999 HIGH, 0.50 HIGH, 0.4999
\* MEDIUM, 0.30 MEDIUM, 0.2999 LOW, each with the default recommended action
\* of its tier.
C15_ClassifierBoundaries ==
  "decision" \in DOMAIN probe
    => LET s == probe.score
           d == probe.decision
       IN /\ d.severity \in Tiers
          /\ d.severity = TierOf(s)
          /\ d.recommended_action = DefaultAction(d.severity)
          /\ s = 7000 => d.severity = "CRITICAL"
          /\ s = 6999 => d.severity = "HIGH"
          /\ s = 5000 => d.severity = "HIGH"
          /\ s = 4999 => d.severity = "MEDIUM"
          /\ s = 3000 => d.severity = "MEDIUM"
          /\ s = 2999 => d.severity = "LOW"

C15_Witness ==
  /\ "decision" \in DOMAIN probe
  /\ probe.score = 7000
  /\ probe.decision.severity = "CRITICAL"

\* the five analyzer results for a transaction, in invocation order
Analyses(txn) ==
  << analyze_transaction_amount(txn.amount), analyze_location_pattern(txn.location),
     analyze_device_pattern(txn.device_id), analyze_time_pattern(txn.timestamp),
     check_velocity_patterns(txn.user_id) >>

\* what the claim says of an alert computed for txn on the normal path
Aggregated(alert, txn) ==
  LET an  == Analyses(txn)
      sum == an[1].risk_score + an[2].risk_score + an[3].risk_score
             + an[4].risk_score + an[5].risk_score
  IN /\ alert.risk_score = (IF sum > 100 THEN 100 ELSE sum)
     /\ alert.risk_score \in 0..100
     /\ alert.risk_factors = an[1].risk_factors \o an[2].risk_factors
                               \o an[3].risk_factors \o an[4].risk_factors
                               \o an[5].risk_factors

\* C16: on the normal path the alert's risk score is min(1, sum of the five
\* analyzer contributions), so it lies in [0,1], and its factor list is the
\* analyzers' factor lists concatenated in the order amount, location,
\* device, time, velocity.
C16_ClampedSumAndFactorOrder ==
  [][ /\ \A txn \in submitted', narr \in NarrativeOutcomes :
           (analyze_transaction(txn, FALSE, narr)
              \/ \E o \in Choices : generate_test_transaction(txn, FALSE, narr, o))
             => Aggregated(active_alerts'[txn.id], txn)
      /\ \A narr \in NarrativeOutcomes, o \in Choices :
           txw_analysis_done(FALSE, narr, o)
             => /\ Aggregated(active_alerts'[task["txw"].item.id], task["txw"].item)
                /\ Aggregated(Last(alert_queue'), task["txw"].item) ]_vars

C16_Witness ==
  \E i \in Stored :
    /\ active_alerts[i].risk_score = 100
    /\ Len(active_alerts[i].risk_factors) = 6
    /\ active_alerts[i].risk_factors[3] = "High-risk location"
    /\ Len(alerted) >= 1

\* the ids alerts were responded to by the alert consumer
RespondedIds == { responded[k] : k \in 1..Len(responded) }

\* the stored alert of txn was computed on the normal path
NormalPath(txn) ==
  /\ active_alerts[txn.id] # NoAlert
  /\ active_alerts[txn.id].agent_reasoning # _fallback_fraud_alert(txn).agent_reasoning

\* the only transaction submitted under its identifier
OnlyRecord(txn) == \A other \in submitted : other.id = txn.id => other = txn

Scenario1(txn) ==
  /\ txn.amount = 6000
  /\ txn.location = "Unknown"
  /\ txn.device_id = "unknown"
  /\ ParseHour(txn.timestamp) = 2

\* C17: a submitted transaction with amount 6000, location "Unknown", device
\* "unknown" and timestamp at 02:00 has, once all processing has finished, an
\* alert of score 1.0 and severity CRITICAL and has gone through the ingestion
\* queue and the alert queue to a completed response of the four actions
\* block, freeze, alert, log in that order.
C17_ScenarioCritical ==
  \A txn \in submitted :
    (Scenario1(txn) /\ OnlyRecord(txn) /\ NormalPath(txn) /\ Quiescent)
      => /\ active_alerts[txn.id].risk_score = 100
         /\ active_alerts[txn.id].severity = "CRITICAL"
         /\ txn.id \in RespondedIds
         /\ (last_run.via = "alw" /\ last_run.alert.transaction_id = txn.id
                /\ last_run.failing = 0)
              => /\ last_run.response.status = "completed"
                 /\ last_run.response.actions_taken
                      = << "Blocked transaction", "Froze account for 24 hours",
                           "Sent urgent fraud alert", "Logged critical security event" >>

Scenario2(txn) ==
  /\ txn.amount = 50
  /\ txn.location = "New York, NY"
  /\ txn.device_id = "device_123"
  /\ ParseHour(txn.timestamp) = 14

\* C18: the velocity contribution follows the supplied recent-transaction
\* count, so a transaction with amount 50, location "New York, NY", device
\* "device_123", timestamp at 14:00 and velocity count 1 gets score 0.0 and
\* severity LOW, and its response is the single log action.
C18_ScenarioLow ==
  \A txn \in submitted :
    (Scenario2(txn) /\ OnlyRecord(txn) /\ NormalPath(txn))
      => /\ active_alerts[txn.id].risk_score = 0
         /\ active_alerts[txn.id].risk_factors = << >>
         /\ active_alerts[txn.id].severity = "LOW"
         /\ (last_run.via = "alw" /\ last_run.alert.transaction_id = txn.id
                /\ last_run.failing = 0)
              => last_run.response.actions_taken = << "Logged low-risk security event" >>

ExecutionCount(id) ==
  Cardinality({ k \in 1..Len(responded) : responded[k] = id })
    + (IF reply["resp"].code = 200 /\ reply["resp"].alert_id = id THEN 1 ELSE 0)

\* C20: when every submission carried its own identifier, the Response
\* Executor runs at most once for an alert identifier, counting the alert
\* consumer and respond_to_alert together.
C20_OneResponsePerAlert ==
  Cardinality(SubmittedIds) = nsubmit
    => \A id \in TxnIds : ExecutionCount(id) <= 1


\* C21: every metrics counter is monotonic: no step decreases or resets the
\* processed count or the error count of fraud_detection, threat_response or
\* case_manager.
C21_CountersMonotonic ==
  [][\A s \in Stages :
       /\ agent_metrics'[s].processed >= agent_metrics[s].processed
       /\ agent_metrics'[s].errors >= agent_metrics[s].errors]_vars

\* every stage has completed work, and a response has failed after that
C21_Witness ==
  /\ \A s \in Stages : agent_metrics[s].processed > 0
  /\ agent_metrics["threat_response"].errors > 0

\* C22: whenever a stage's error counter increases, the stage's last-activity
\* value is set to the current time in the same unit of work.
C22_FailureStampsActivity ==
  [][\A s \in Stages :
       agent_metrics'[s].errors > agent_metrics[s].errors
         => agent_metrics'[s].last_activity = now']_vars


\* C23: the Alert Store changes only by inserting or overwriting one entry:
\* the set of stored identifiers never shrinks, the active-alert count that
\* get_system_status reports never decreases, and a step that stores an alert
\* changes no entry but that alert's own.
C23_StoreOnlyGrows ==
  [][/\ Stored \subseteq Stored'
     /\ get_system_status'.active_alerts >= get_system_status.active_alerts
     /\ \A i, j \in TxnIds :
          (active_alerts'[i] # active_alerts[i] /\ j # i)
            => active_alerts'[j] = active_alerts[j]]_vars

\* two alerts are stored and one of them has been stored again by the
\* ingestion consumer
C23_Witness ==
  /\ Stored = TxnIds
  /\ get_system_status.active_alerts = 2
  /\ \E k \in 1..Len(alerted) : alerted[k] \in SubmittedIds


\* C24: case escalation never propagates an internal failure.  When the
\* agent's investigate_case raises, the request is still answered with a
\* result whose confidence_score is 0.0, whose status is error and which
\* recommends escalating to a human analyst; otherwise the status is
\* completed and the confidence lies in [0.7, 0.95].
C24_DegradedNeverRaised ==
  [][\A case_id \in CaseIds, request_type \in RequestTypes, raised \in BOOLEAN,
        extension \in Extensions, confidence \in Confidences :
       investigate_case(case_id, request_type, raised, extension, confidence)
         => LET answer == reply'["investigate"]
            IN /\ answer.code = 200
               /\ agent_metrics'["case_manager"].errors
                    = agent_metrics["case_manager"].errors
               /\ answer.result.case_id = case_id
               /\ IF raised
                    THEN /\ answer.result.status = "error"
                         /\ answer.result.confidence_score = 0
                         /\ answer.result.recommendations
                              = << "Escalate to human analyst" >>
                    ELSE /\ answer.result.status = "completed"
                         /\ answer.result.confidence_score >= 70
                         /\ answer.result.confidence_score <= 95]_vars

\* a degraded result has been returned after a completed investigation
C24_Witness ==
  /\ ninvestigate = 2
  /\ agent_metrics["case_manager"].processed = 2
  /\ reply["investigate"].code = 200
  /\ reply["investigate"].result.status = "error"
  /\ Len(investigation_templates["transaction_analysis"]) > 4


\* the observer has been told that its subscription is confirmed
Subscribed(o) ==
  \E k \in 1..Len(inbox[o]) : inbox[o][k].type = "subscription_confirmed"

\* a broadcast loop reaches the observer in this step
Visited(t, o) ==
  /\ task'[t].pc = "broadcast"
  /\ o \in task'[t].it.seen
  /\ task[t].pc = "broadcast" => o \notin task[t].it.seen

AmountTier(a) ==
  IF a <= 1000 * AmountUnit THEN 0 ELSE IF a <= 5000 * AmountUnit THEN 10 ELSE 30

C26_AmountContribution ==
  ("amount" \in DOMAIN probe /\ "result" \in DOMAIN probe)
    => LET a == probe.amount
           r == probe.result.risk_score
           multiple == \E k \in 0..60 : a = k * 100 * AmountUnit
       IN /\ r >= 0 /\ r <= 35
          /\ r = AmountTier(a) + (IF multiple THEN 5 ELSE 0)
          /\ \A b \in {1000 * AmountUnit, 1000 * AmountUnit + 1,
                         5000 * AmountUnit, 5000 * AmountUnit + 1} :
               b <= a => AmountTier(b) <= AmountTier(a)

\* 5000.00, the largest amount of the middle tier and a multiple of 100, has
\* been given 0.1 + 0.05
C26_Witness ==
  /\ "amount" \in DOMAIN probe /\ "result" \in DOMAIN probe
  /\ probe.amount = 5000 * AmountUnit
  /\ probe.result.risk_score = 15

\* datetime.minute of a timestamp that parses
ParseMinute(timestamp) ==
  CASE timestamp = "2024-01-01T05:59:00" -> 59
    [] timestamp = "2024-01-01T23:30:00" -> 30
    [] OTHER -> 0

\* C27: the time signal contributes 0.2 for every timestamp that parses and
\* whose time of day is before 06:00 or after 23:00, and 0 for every other
\* timestamp that parses.
C27_NightHours ==
  ("timestamp" \in DOMAIN probe /\ "result" \in DOMAIN probe
     /\ ParseHour(probe.timestamp) # -1)
    => LET time_of_day == 60 * ParseHour(probe.timestamp) + ParseMinute(probe.timestamp)
       IN probe.result.risk_score
            = IF time_of_day < 6 * 60 \/ time_of_day > 23 * 60 THEN 20 ELSE 0


AlertedIds == { alerted[k] : k \in 1..Len(alerted) }

\* C28: a timestamp that does not parse never aborts the pipeline: the time
\* analyzer returns 0.1 with the factor "Invalid timestamp format", the alert
\* is produced by the normal path with the other four contributions intact,
\* and once the pipeline is idle the transaction is stored, has been put on
\* the alert queue and has been responded to.
C28_UnparsableGoesThrough ==
  \A txn \in submitted :
    (ParseHour(txn.timestamp) = -1 /\ OnlyRecord(txn) /\ Quiescent)
      => /\ analyze_time_pattern(txn.timestamp)
              = [risk_factors |-> << "Invalid timestamp format" >>, risk_score |-> 10]
         /\ NormalPath(txn)
         /\ Aggregated(active_alerts[txn.id], txn)
         /\ txn.id \in AlertedIds
         /\ txn.id \in RespondedIds


\* the positions in the observer's inbox of the messages of one type about
\* one transaction
Received(o, type, id) ==
  { k \in 1..Len(inbox[o]) :
      /\ inbox[o][k].type = type
      /\ IF type = "fraud_alert" THEN inbox[o][k].data.transaction_id = id
                                 ELSE inbox[o][k].data.alert_id = id }

\* the observer connected before the first submission and its socket is
\* still open
ConnectedThroughout(o) == joined[o] = 0 /\ conn[o] = "open"

\* C29: every transaction created by generate_test_transaction is analysed
\* exactly twice.  Once the queues have drained and every task is idle, and
\* every submission carried its own identifier: the fraud_detection
\* processed counter is twice the number of submissions, the store holds one
\* entry per submission, the alert consumer has executed exactly one
\* response for each, and every observer connected throughout has received
\* two fraud_alert messages for each.
C29_DualPath ==
  (Quiescent /\ Cardinality(SubmittedIds) = nsubmit)
    => /\ agent_metrics["fraud_detection"].processed = 2 * nsubmit
       /\ Stored = SubmittedIds
       /\ \A id \in SubmittedIds :
            /\ Cardinality({ k \in 1..Len(responded) : responded[k] = id }) = 1
            /\ \A o \in Observers :
                 ConnectedThroughout(o)
                   => Cardinality(Received(o, "fraud_alert", id)) = 2

\* C30: for every observer connected throughout and every transaction the
\* ingestion consumer has processed and the alert consumer has responded to,
\* once every task is idle the observer has received the fraud_alert of the
\* transaction and, after it, its threat_response, and no threat_response
\* of the transaction before its first fraud_alert.
C30_AlertBeforeResponse ==
  Quiescent
    => \A o \in Observers, id \in AlertedIds \cap RespondedIds :
         ConnectedThroughout(o)
           => /\ Received(o, "fraud_alert", id) # {}
              /\ Received(o, "threat_response", id) # {}
              /\ \A r \in Received(o, "threat_response", id) :
                   \E a \in Received(o, "fraud_alert", id) : a < r


\* the broadcast of task t ends in this step
BroadcastEnds(t) == task[t].pc = "broadcast" /\ task'[t].pc # "broadcast"

\* C31: no observer connecting or disconnecting while a broadcast is
\* suspended in a socket write makes the broadcast fail or skip an observer
\* that stayed connected throughout: when the broadcast ends no error counter
\* has been incremented, a handler that broadcast answers with success, and
\* every observer that was in the set when the loop began and is still in
\* it with an open socket has been visited.
C31_BroadcastSurvivesChurn ==
  [][\A t \in Tasks :
       BroadcastEnds(t)
         => /\ \A s \in Stages : agent_metrics'[s].errors = agent_metrics[s].errors
            /\ t \in Handlers => reply'[t].code = 200
            /\ \A o \in task[t].it.snap :
                 (conn[o] = "open" /\ o \in websocket_connections)
                   => o \in task[t].it.seen]_vars


\* the units a consumer has taken from its queue
Dequeued(puts, queue) == Len(puts) - Len(queue)

\* C32: each unit of work is counted exactly once.  Between two units of
\* the ingestion consumer the fraud_detection counters, less the one
\* processed count of each handler analysis, add up to the number of
\* transactions it has dequeued; between two units of the alert consumer the
\* threat_response counters add up to the number of alerts it has dequeued
\* (no response is requested by hand).
C32_UnitCountedOnce ==
  /\ task["txw"].pc = "get"
       => agent_metrics["fraud_detection"].processed
            + agent_metrics["fraud_detection"].errors - nsubmit
            = Dequeued(enqueued, transaction_queue)
  /\ (task["alw"].pc = "get" /\ nrespond = 0)
       => agent_metrics["threat_response"].processed
            + agent_metrics["threat_response"].errors
            = Dequeued(alerted, alert_queue)


\* C33: no metrics increment is lost under concurrency: every step that
\* completes analyses (one per submission handled, one per alert the
\* ingestion consumer hands on) raises the fraud_detection processed counter
\* by their number, and every step that completes responses (of the alert
\* consumer or of respond_to_alert) raises the threat_response processed
\* counter by their number; so the counters equal the numbers of completed
\* analyses and responses when everything has finished.
C33_NoLostIncrement ==
  [][/\ agent_metrics'["fraud_detection"].processed
          - agent_metrics["fraud_detection"].processed
          = (nsubmit' - nsubmit) + (Len(alerted') - Len(alerted))
     /\ agent_metrics'["threat_response"].processed
          - agent_metrics["threat_response"].processed
          = (Len(responded') - Len(responded))
              + (IF task["resp"].pc = "thread" /\ task'["resp"].pc # "thread"
                   THEN 1 ELSE 0)]_vars

\* two transactions analysed twice each, and a response by hand next to
\* the responses of the alert consumer, all finished
C33_Witness ==
  /\ Quiescent
  /\ agent_metrics["fraud_detection"].processed = 4
  /\ reply["resp"].code = 200
  /\ Len(responded) = 2
  /\ agent_metrics["threat_response"].processed = 3


\* C34: under fair scheduling and without shutdown the pipeline makes
\* progress past failures: again and again the consumers have caught up, so
\* that every transaction placed on the ingestion queue has been dequeued,
\* has its alert stored and handed to the alert queue in its turn, and has
\* had a response executed by the alert consumer in its turn, whatever units
\* failed before it.
C34_ProgressPastFailures ==
  []<>(/\ alerted = enqueued
       /\ responded = enqueued
       /\ \A n \in 1..Len(enqueued) : enqueued[n] \in Stored)

\* both units of the ingestion consumer failed in their broadcast, and both
\* transactions were responded to
C34_Witness ==
  /\ Quiescent
  /\ agent_metrics["fraud_detection"].errors = 2
  /\ Len(enqueued) = 2
  /\ Len(responded) = 2


\* C35: investigate_case leaves the investigation templates unchanged: the
\* steps_completed returned for a known request type are the 4 steps of the
\* template, or those followed by two additional steps, however many calls
\* were made before.
C35_TemplatesUnchanged ==
  /\ investigation_templates = Templates
  /\ (/\ reply["investigate"].code = 200
      /\ reply["investigate"].result.status = "completed"
      /\ reply["investigate"].result.investigation_type \in DOMAIN Templates)
       => LET result == reply["investigate"].result
          IN /\ Len(result.steps_completed) \in {4, 6}
             /\ SubSeq(result.steps_completed, 1, 4)
                  = Templates[result.investigation_type]


\* the response actions that take a user identifier
UserActions == {"freeze_account", "send_fraud_alert", "require_verification"}

\* C36: response actions always target the user who owns the triggering
\* transaction: in every run of the Response Executor, through
\* respond_to_alert as through the alert consumer, the user identifier
\* passed to freeze_account, send_fraud_alert and require_verification is
\* the user identifier of the transaction the alert is about.
C36_ActionsTargetOwner ==
  last_run # NoRun
    => \A k \in 1..Len(last_run.performed) :
         last_run.performed[k].action \in UserActions
           => last_run.performed[k].target = UserOf(last_run.alert.transaction_id)


\* what a request must leave alone when it is answered with an error
LeftAsBefore ==
  /\ active_alerts' = active_alerts
  /\ \A s \in Stages : agent_metrics'[s].processed = agent_metrics[s].processed

\* C37: a request that ends in an error response leaves the shared state as
\* it was: whenever analyze_transaction or respond_to_alert answers with an
\* error status, the Alert Store and the processed counters are unchanged by
\* that request.
C37_ErrorLeavesStateAlone ==
  [][/\ \A txn \in PipelineTransactions, raised \in BOOLEAN, narr \in NarrativeOutcomes :
          (analyze_transaction(txn, raised, narr) /\ reply'["analyze"].code >= 400)
            => LeftAsBefore
     /\ \A alert_id \in TxnIds :
          (respond_to_alert(alert_id) /\ reply'["resp"].code >= 400)
            => LeftAsBefore]_vars


\* the observers a broadcast of task t has attempted delivery to so far
Attempted(tk) == IF tk.pc = "broadcast" THEN tk.it.seen ELSE {}

\* C38: an observer leaves the observer set whenever its connection handler
\* ends (after a disconnect, or a text that is not JSON or not a JSON
\* object): the step that ends the handler removes it from the set, it
\* stays out, no later broadcast attempts delivery to it, and every member
\* of the observer set has a running connection handler.
C38_ObserverLeavesWithHandler ==
  [][\A o \in Observers :
       /\ conn'[o] = "closed" => o \notin websocket_connections'
       /\ conn[o] = "closed" =>
            /\ inbox'[o] = inbox[o]
            /\ \A t \in Tasks : o \notin Attempted(task'[t]) \ Attempted(task[t])
       /\ o \in websocket_connections' => conn'[o] \in {"open", "broken"}]_vars

\* the first observer received the alert of txn_1, its handler ended, and a
\* later broadcast delivered the alert of txn_2 to the second observer only
C38_Witness ==
  /\ conn["ws_1"] = "closed"
  /\ Received("ws_1", "fraud_alert", "txn_1") # {}
  /\ Received("ws_1", "fraud_alert", "txn_2") = {}
  /\ "ws_2" \in websocket_connections
  /\ Received("ws_2", "fraud_alert", "txn_2") # {}

====
